---- MODULE Spec2Model ----
(***************************************************************************)
(* Model of todo_indicator.py: a tray indicator that renders a todo.txt   *)
(* file as a menu, rewrites the file to check items off, and follows      *)
(* external changes through an inotify watcher thread that sets a flag    *)
(* which a 500ms GTK timeout consumes.                                     *)
(*                                                                         *)
(* Text is modelled as sequences of one-character strings, so that split, *)
(* find, strip, slicing, sorting and print act on characters as they do   *)
(* in the program.                                                         *)
(***************************************************************************)
EXTENDS Integers, Sequences, FiniteSets, TLC

VARIABLES
    python,             \* major version of the interpreter behind "#!/usr/bin/env python"
    task_filter,        \* self.task_filter
    file,               \* content of the file at self.todo_filename
    file_ok,            \* whether open() of self.todo_filename succeeds
    todo_list,          \* self.todo_list
    menu,               \* the menu installed by self.ind.set_menu
    list_updated_flag,  \* self.list_updated_flag
    notifier,           \* whether the pyinotify notifier thread is running
    pending,            \* inotify events for todo_filename not yet delivered
    event,              \* pathname of the event process_inotify_event got last
    status,             \* "new", "running", "quit" or "exited"
    exit_code,          \* argument of sys.exit, -1 while none was made
    stdout,             \* what load_todo_file has printed
    pc,                 \* position of the GTK thread: "idle", "l95", "l96"
    callback,           \* the callback the GTK thread entered last
    arg,                \* the label handed to that callback, if any
    built,              \* build_indicator calls made so far by that callback
    timer,              \* whether the 500ms timeout is installed in the main loop
    reported            \* whether the notifier has reported the todo file since
                        \* the last rebuild of a poll tick

vars == <<python, task_filter, file, file_ok, todo_list, menu,
          list_updated_flag, notifier, pending, event, status, exit_code,
          stdout, pc, callback, arg, built, timer, reported>>

----------------------------------------------------------------------------
(* Bounds of the model                                                     *)

MaxFileLen == 5     \* longest file content given to the functions on their own
MaxFilterLen == 1   \* longest --filter given to load_todo_file on its own
MaxPending == 2     \* inotify events in flight
MaxGrow == 12       \* longest file content a rewrite may produce in a run

Alphabet == {"a", "x", " ", "\n", "~"}

----------------------------------------------------------------------------
(* Characters and strings                                                  *)

\* code point of a character: str comparison orders by it
Ord(c) ==
    CASE c = "\n" -> 10
      [] c = " "  -> 32
      [] c = "\"" -> 34
      [] c = "'"  -> 39
      [] c = "("  -> 40
      [] c = ")"  -> 41
      [] c = ","  -> 44
      [] c = "\\" -> 92
      [] c = "a"  -> 97
      [] c = "n"  -> 110
      [] c = "x"  -> 120
      [] c = "z"  -> 122
      [] c = "~"  -> 126

Min(m, n) == IF m < n THEN m ELSE n

\* s[:n]
Take(s, n) == SubSeq(s, 1, Min(n, Len(s)))

\* s[n:]
Drop(s, n) == SubSeq(s, Min(n, Len(s)) + 1, Len(s))

\* s < t for str: the first differing character decides, a proper prefix is smaller
RECURSIVE StrLess(_, _)
StrLess(s, t) ==
    IF t = <<>> THEN FALSE
    ELSE IF s = <<>> THEN TRUE
    ELSE IF Head(s) = Head(t) THEN StrLess(Tail(s), Tail(t))
    ELSE Ord(Head(s)) < Ord(Head(t))

\* s.split(sep) for a one-character sep
RECURSIVE Split(_, _)
Split(s, sep) ==
    IF \A i \in 1..Len(s) : s[i] # sep THEN <<s>>
    ELSE LET k == CHOOSE i \in 1..Len(s) :
                      s[i] = sep /\ \A j \in 1..(i - 1) : s[j] # sep
         IN  <<SubSeq(s, 1, k - 1)>> \o Split(SubSeq(s, k + 1, Len(s)), sep)

\* s.find(sub): the lowest index (from 0) where sub occurs in s, or -1
Find(s, sub) ==
    LET hits == {i \in 0..(Len(s) - Len(sub)) :
                    SubSeq(s, i + 1, i + Len(sub)) = sub}
    IN  IF hits = {} THEN -1
        ELSE CHOOSE i \in hits : \A j \in hits : i <= j

Whitespace == {" ", "\n"}

\* s.strip()
RECURSIVE Strip(_)
Strip(s) ==
    IF s = <<>> THEN s
    ELSE IF Head(s) \in Whitespace THEN Strip(Tail(s))
    ELSE IF s[Len(s)] \in Whitespace THEN Strip(SubSeq(s, 1, Len(s) - 1))
    ELSE s

\* the lines a file object yields, each with its terminator
RECURSIVE ReadLines(_)
ReadLines(s) ==
    IF s = <<>> THEN <<>>
    ELSE IF \A i \in 1..Len(s) : s[i] # "\n" THEN <<s>>
    ELSE LET k == CHOOSE i \in 1..Len(s) :
                      s[i] = "\n" /\ \A j \in 1..(i - 1) : s[j] # "\n"
         IN  <<SubSeq(s, 1, k)>> \o ReadLines(SubSeq(s, k + 1, Len(s)))

\* repr() of a str of printable ASCII and newlines
RECURSIVE ReprBody(_, _)
ReprBody(s, quote) ==
    IF s = <<>> THEN <<>>
    ELSE LET c == Head(s)
             e == IF c = "\n" THEN <<"\\", "n">>
                  ELSE IF c = "\\" \/ c = quote THEN <<"\\", c>>
                  ELSE <<c>>
         IN  e \o ReprBody(Tail(s), quote)

Repr(s) ==
    LET chars == {s[i] : i \in 1..Len(s)}
        quote == IF "'" \in chars /\ "\"" \notin chars THEN "\"" ELSE "'"
    IN  <<quote>> \o ReprBody(s, quote) \o <<quote>>

----------------------------------------------------------------------------
(* The list loader                                                         *)

\* check_item_for_filter got wrong: the filter has to start the item
check_item_for_filter_startswith(list_item, filter) ==
    Take(list_item, Len(filter)) = filter

\* check_item_for_filter: whether the item contains the filter
check_item_for_filter(list_item, filter) ==
    IF Find(list_item, filter) = -1 THEN FALSE ELSE TRUE

\* a[:2] == 'x '
Completed(a) == Take(a, 2) = <<"x", " ">>

ZCount == 10

\* the key of sorted(): 'z' * 10 + a if a[:2] == 'x ' else a
SortKey(a) ==
    IF Completed(a) THEN [i \in 1..ZCount |-> "z"] \o a ELSE a

\* one step of a stable sort: x goes behind every item whose key is not greater
RECURSIVE Insert(_, _)
Insert(list, x) ==
    IF list = <<>> THEN <<x>>
    ELSE IF StrLess(SortKey(x), SortKey(Head(list))) THEN <<x>> \o list
    ELSE <<Head(list)>> \o Insert(Tail(list), x)

\* sorted(list, key=...): ascending by key, items of equal key in their given order
RECURSIVE sorted(_)
sorted(list) ==
    IF list = <<>> THEN <<>>
    ELSE Insert(sorted(SubSeq(list, 1, Len(list) - 1)), list[Len(list)])

\* the value load_todo_file gives self.todo_list when the file opens
load_todo_file(content, filter) ==
    sorted(SelectSeq(Split(content, "\n"),
                     LAMBDA item : check_item_for_filter(item, filter)))

----------------------------------------------------------------------------
(* The line mutator                                                        *)

\* what "print(s,)" writes: under Python 3 a call with one argument, under
\* Python 2 the print statement applied to the one-element tuple (s,)
print(py, s) ==
    IF py = 3 THEN s \o <<"\n">>
    ELSE <<"(">> \o Repr(s) \o <<",", ")">> \o <<"\n">>

RECURSIVE Concat(_)
Concat(parts) ==
    IF parts = <<>> THEN <<>> ELSE Head(parts) \o Concat(Tail(parts))

\* the file as check_off_item_with_label leaves it
check_off_item_with_label(content, label, py) ==
    LET lines == ReadLines(content)
    IN  Concat([i \in 1..Len(lines) |->
                  IF Strip(lines[i]) = Strip(label)
                  THEN print(py, <<"x", " ">> \o lines[i])
                  ELSE print(py, lines[i])])

\* the file as remove_checked_off_items leaves it
remove_checked_off_items(content, py) ==
    LET lines == ReadLines(content)
    IN  Concat([i \in 1..Len(lines) |->
                  IF Take(lines[i], 2) = <<"x", " ">>
                  THEN <<>>
                  ELSE print(py, lines[i])])

----------------------------------------------------------------------------
(* The menu                                                                *)

NoItemsLabel == <<"[", " ", "N", "o", " ", "i", "t", "e", "m", "s", ".", " ", "C", "l", "i", "c", "k", " ", "'", "E", "d", "i", "t", "'", " ", "t", "o", " ", "a", "d", "d", " ", "s", "o", "m", "e", "!", " ", "]">>

\* self.menu_items
menu_items ==
    << <<<<"E", "d", "i", "t", " ", "t", "o", "d", "o", ".", "t", "x", "t">>,
           "edit_handler">>,
       <<<<"C", "l", "e", "a", "r", " ", "c", "o", "m", "p", "l", "e", "t", "e", "d">>,
           "clear_completed_handler">>,
       <<<<"R", "e", "f", "r", "e", "s", "h">>, "refresh_handler">>,
       <<<<"Q", "u", "i", "t">>, "quit_handler">> >>

MenuItem(label, sensitive, activate) ==
    [kind |-> "item", label |-> label, sensitive |-> sensitive,
     activate |-> activate]

SeparatorMenuItem ==
    [kind |-> "separator", label |-> <<>>, sensitive |-> TRUE,
     activate |-> "none"]

\* build_indicator got wrong: completed items are not grayed out
Menu_all_sensitive(list) ==
    (IF list # <<>>
     THEN [i \in 1..Len(list) |->
             MenuItem(list[i], TRUE, "check_off_handler")]
     ELSE <<MenuItem(NoItemsLabel, FALSE, "none")>>)
    \o <<SeparatorMenuItem>>
    \o [i \in 1..Len(menu_items) |->
          MenuItem(menu_items[i][1], TRUE, menu_items[i][2])]

\* the menu build_indicator hands to set_menu for a loaded list
Menu(list) ==
    (IF list # <<>>
     THEN [i \in 1..Len(list) |->
             MenuItem(list[i], ~(Take(list[i], 2) = <<"x", " ">>),
                      "check_off_handler")]
     ELSE <<MenuItem(NoItemsLabel, FALSE, "none")>>)
    \o <<SeparatorMenuItem>>
    \o [i \in 1..Len(menu_items) |->
          MenuItem(menu_items[i][1], TRUE, menu_items[i][2])]

----------------------------------------------------------------------------
(* The running program                                                     *)

todo_filename == "/home/user/todo.txt"
other_filename == "/home/user/notes.txt"

\* the --filter values of a run: none given, or a substring
Filters == {<<>>, <<"a">>}

\* the contents other programs write to the todo file during a run
ExternalFiles ==
    { <<"a", "\n", "x", " ", "a", "\n">>,
      <<"~", "\n", "x", " ", "a">>,
      <<"a", "\n">>,
      <<"x", "\n", "x", " ">> }

Init ==
    /\ python \in {2, 3}
    /\ task_filter \in Filters
    /\ file_ok \in BOOLEAN
    /\ file \in (IF file_ok THEN ExternalFiles ELSE {<<>>})
    /\ todo_list = <<>>
    /\ menu = <<>>
    /\ list_updated_flag = FALSE
    /\ notifier = FALSE
    /\ pending = 0
    /\ event = "none"
    /\ status = "new"
    /\ exit_code = -1
    /\ stdout = <<>>
    /\ pc = "idle"
    /\ callback = "none"
    /\ arg = <<>>
    /\ built = 0
    /\ timer = FALSE
    /\ reported = FALSE

\* build_indicator got wrong: the IOError is printed, sys.exit is not called
build_indicator_keeps_running(content, ok) ==
    IF ok
    THEN /\ todo_list' = load_todo_file(content, task_filter)
         /\ menu' = Menu(todo_list')
         /\ UNCHANGED <<stdout, exit_code>>
    ELSE /\ stdout' = Append(stdout, "Error opening file:\n" \o todo_filename)
         /\ UNCHANGED <<exit_code, todo_list, menu>>

\* build_indicator on a file of the given content: load_todo_file, then the
\* menu; an IOError in open() prints, and sys.exit(1) leaves build_indicator
\* before any menu is made
build_indicator(content, ok) ==
    IF ok
    THEN /\ todo_list' = load_todo_file(content, task_filter)
         /\ menu' = Menu(todo_list')
         /\ UNCHANGED <<stdout, exit_code>>
    ELSE /\ stdout' = Append(stdout, "Error opening file:\n" \o todo_filename)
         /\ exit_code' = 1
         /\ UNCHANGED <<todo_list, menu>>

\* sys.exit ends the process and with it the notifier thread; otherwise the
\* caller of build_indicator goes on
Continue(next_status, next_notifier, next_pc) ==
    IF exit_code' = -1
    THEN /\ status' = next_status
         /\ notifier' = next_notifier
         /\ pc' = next_pc
    ELSE /\ status' = "exited"
         /\ notifier' = FALSE
         /\ pc' = "idle"

\* TodoIndicator.__init__: the flag, the first build, then the notifier, the
\* watch and the timeout
init ==
    /\ status = "new"
    /\ list_updated_flag' = FALSE
    /\ build_indicator(file, file_ok)
    /\ Continue("running", TRUE, "idle")
    /\ callback' = "__init__"
    /\ built' = 1
    /\ timer' = (exit_code' = -1)
    /\ UNCHANGED <<reported, python, task_filter, file, file_ok, pending, event, arg>>

\* update_if_todo_file_changed got wrong: with the flag unset the callback
\* falls off its end, and the None it returns removes the timeout
update_l94_returns_none ==
    /\ status = "running"
    /\ timer
    /\ pc = "idle"
    /\ callback' = "update_if_todo_file_changed"
    /\ built' = 0
    /\ pc' = IF list_updated_flag THEN "l95" ELSE "idle"
    /\ timer' = list_updated_flag
    /\ UNCHANGED <<reported, python, task_filter, file, file_ok, todo_list, menu,
                   list_updated_flag, notifier, pending, event, status,
                   exit_code, stdout, arg>>

\* line 94 of update_if_todo_file_changed: the timeout fires and tests the
\* flag; with the flag unset the callback returns True at line 100, which
\* keeps the timeout installed
update_l94 ==
    /\ status = "running"
    /\ timer
    /\ pc = "idle"
    /\ callback' = "update_if_todo_file_changed"
    /\ built' = 0
    /\ pc' = IF list_updated_flag THEN "l95" ELSE "idle"
    /\ timer' = TRUE
    /\ UNCHANGED <<reported, python, task_filter, file, file_ok, todo_list, menu,
                   list_updated_flag, notifier, pending, event, status,
                   exit_code, stdout, arg>>

\* line 95: the rebuild
update_l95 ==
    /\ status = "running"
    /\ pc = "l95"
    /\ build_indicator(file, file_ok)
    /\ built' = built + 1
    /\ Continue(status, notifier, "l96")
    /\ reported' = FALSE
    /\ UNCHANGED <<timer, python, task_filter, file, file_ok, list_updated_flag,
                   pending, event, callback, arg>>

\* line 96 got wrong: the flag is not reset
update_l96_keeps_flag ==
    /\ status = "running"
    /\ pc = "l96"
    /\ pc' = "idle"
    /\ timer' = TRUE
    /\ UNCHANGED <<reported, python, task_filter, file, file_ok, todo_list, menu,
                   list_updated_flag, notifier, pending, event, status,
                   exit_code, stdout, callback, arg, built>>

\* line 96: the flag reset, and the return of True to the main loop
update_l96 ==
    /\ status = "running"
    /\ pc = "l96"
    /\ list_updated_flag' = FALSE
    /\ pc' = "idle"
    /\ timer' = TRUE
    /\ UNCHANGED <<reported, python, task_filter, file, file_ok, todo_list, menu,
                   notifier, pending, event, status, exit_code, stdout,
                   callback, arg, built>>

\* process_inotify_event got wrong: the path of the event is not compared
process_inotify_event_any_path(pathname) ==
    /\ event' = pathname
    /\ list_updated_flag' = TRUE
    /\ reported' = TRUE
    /\ UNCHANGED <<timer, python, task_filter, file, file_ok, todo_list, menu,
                   notifier, status, exit_code, stdout, pc, callback, arg,
                   built>>

\* process_inotify_event, on the notifier thread
process_inotify_event(pathname) ==
    /\ event' = pathname
    /\ list_updated_flag' =
          IF pathname = todo_filename THEN TRUE ELSE list_updated_flag
    /\ reported' = IF pathname = todo_filename THEN TRUE ELSE reported
    /\ UNCHANGED <<timer, python, task_filter, file, file_ok, todo_list, menu,
                   notifier, status, exit_code, stdout, pc, callback, arg,
                   built>>

\* the notifier thread reads an event of the todo file from the inotify queue
WatcherEvent ==
    /\ notifier
    /\ pending > 0
    /\ pending' = pending - 1
    /\ process_inotify_event(todo_filename)

\* another file of the watched directory is modified
OtherFileEvent ==
    /\ notifier
    /\ status = "running"
    /\ UNCHANGED pending
    /\ process_inotify_event(other_filename)

\* the inotify queue after a write to the todo file (IN_MODIFY or IN_MOVED_TO)
Queued(n) == IF notifier THEN Min(n + 1, MaxPending) ELSE n

\* another program replaces the content of the todo file
ExternalWrite(content) ==
    /\ status \in {"new", "running"}
    /\ file' = content
    /\ file_ok' = TRUE
    /\ pending' = Queued(pending)
    /\ UNCHANGED <<timer, reported, python, task_filter, todo_list, menu, list_updated_flag,
                   notifier, event, status, exit_code, stdout, pc, callback,
                   arg, built>>

\* another program removes the todo file (no IN_DELETE in the watch mask)
ExternalRemove ==
    /\ status \in {"new", "running"}
    /\ file_ok
    /\ file' = <<>>
    /\ file_ok' = FALSE
    /\ UNCHANGED <<timer, reported, python, task_filter, todo_list, menu, list_updated_flag,
                   notifier, pending, event, status, exit_code, stdout, pc,
                   callback, arg, built>>

\* the activate signal reaches only sensitive items, between two callbacks
CanActivate(i, handler) ==
    /\ status = "running"
    /\ pc = "idle"
    /\ i \in 1..Len(menu)
    /\ menu[i].activate = handler
    /\ menu[i].sensitive

\* the handlers got wrong: the rebuild comes before the rewrite
BuildAndRewrite(content) ==
    IF file_ok
    THEN /\ Len(content) <= MaxGrow
         /\ file' = content
         /\ pending' = IF content # <<>> THEN Queued(pending) ELSE pending
         /\ build_indicator(file, TRUE)
         /\ built' = 1
    ELSE /\ built' = 0
         /\ UNCHANGED <<file, pending, todo_list, menu, stdout, exit_code>>

\* a handler that rewrites the file and then rebuilds; fileinput raises on a
\* file it cannot open, and the handler ends there
RewriteAndBuild(content) ==
    IF file_ok
    THEN /\ Len(content) <= MaxGrow
         /\ file' = content
         /\ pending' = IF content # <<>> THEN Queued(pending) ELSE pending
         /\ build_indicator(content, TRUE)
         /\ built' = 1
    ELSE /\ built' = 0
         /\ UNCHANGED <<file, pending, todo_list, menu, stdout, exit_code>>

check_off_handler(i) ==
    /\ CanActivate(i, "check_off_handler")
    /\ callback' = "check_off_handler"
    /\ arg' = menu[i].label
    /\ RewriteAndBuild(check_off_item_with_label(file, menu[i].label, python))
    /\ UNCHANGED <<timer, reported, python, task_filter, file_ok, list_updated_flag, notifier,
                   event, status, pc>>

clear_completed_handler(i) ==
    /\ CanActivate(i, "clear_completed_handler")
    /\ callback' = "clear_completed_handler"
    /\ RewriteAndBuild(remove_checked_off_items(file, python))
    /\ UNCHANGED <<timer, reported, python, task_filter, file_ok, list_updated_flag, notifier,
                   event, status, pc, arg>>

refresh_handler(i) ==
    /\ CanActivate(i, "refresh_handler")
    /\ callback' = "refresh_handler"
    /\ build_indicator(file, file_ok)
    /\ built' = 1
    /\ Continue(status, notifier, pc)
    /\ UNCHANGED <<timer, reported, python, task_filter, file, file_ok, list_updated_flag,
                   pending, event, arg>>

\* os.system runs the editor; what the editor writes is an ExternalWrite
edit_handler(i) ==
    /\ CanActivate(i, "edit_handler")
    /\ callback' = "edit_handler"
    /\ built' = 0
    /\ UNCHANGED <<timer, reported, python, task_filter, file, file_ok, todo_list, menu,
                   list_updated_flag, notifier, pending, event, status,
                   exit_code, stdout, pc, arg>>

\* quit_handler got wrong: the notifier thread is left running
quit_handler_leaves_notifier(i) ==
    /\ CanActivate(i, "quit_handler")
    /\ callback' = "quit_handler"
    /\ built' = 0
    /\ status' = "quit"
    /\ UNCHANGED <<timer, reported, python, task_filter, file, file_ok, todo_list, menu,
                   list_updated_flag, notifier, pending, event, exit_code,
                   stdout, pc, arg>>

\* notifier.stop() joins the notifier thread, Gtk.main_quit() ends the loop
quit_handler(i) ==
    /\ CanActivate(i, "quit_handler")
    /\ callback' = "quit_handler"
    /\ built' = 0
    /\ notifier' = FALSE
    /\ status' = "quit"
    /\ UNCHANGED <<timer, reported, python, task_filter, file, file_ok, todo_list, menu,
                   list_updated_flag, pending, event, exit_code, stdout, pc,
                   arg>>

Next ==
    \/ init
    \/ update_l94
    \/ update_l95
    \/ update_l96
    \/ WatcherEvent
    \/ OtherFileEvent
    \/ \E content \in ExternalFiles : ExternalWrite(content)
    \/ ExternalRemove
    \/ \E i \in 1..Len(menu) : check_off_handler(i)
    \/ \E i \in 1..Len(menu) : clear_completed_handler(i)
    \/ \E i \in 1..Len(menu) : refresh_handler(i)
    \/ \E i \in 1..Len(menu) : edit_handler(i)
    \/ \E i \in 1..Len(menu) : quit_handler(i)

Spec == Init /\ [][Next]_vars

----------------------------------------------------------------------------
(* The functions on their own: load_todo_file on every short file and      *)
(* filter, the two rewrites on every short file.  The methods are called   *)
(* on an object whose constructor has not run, as a unit test would.       *)

StringsUpTo(n) == UNION {[1..k -> Alphabet] : k \in 0..n}

InitFn ==
    /\ file \in StringsUpTo(MaxFileLen)
    /\ file_ok = TRUE
    /\ todo_list = <<>>
    /\ menu = <<>>
    /\ list_updated_flag = FALSE
    /\ notifier = FALSE
    /\ pending = 0
    /\ event = "none"
    /\ status = "new"
    /\ exit_code = -1
    /\ stdout = <<>>
    /\ pc = "idle"
    /\ callback = "none"
    /\ arg = <<>>
    /\ built = 0
    /\ timer = FALSE
    /\ reported = FALSE

\* load_todo_file does not print: the interpreter version plays no part
InitLoad ==
    /\ python = 3
    /\ task_filter \in StringsUpTo(MaxFilterLen)
    /\ InitFn

LoadStep ==
    /\ callback = "none"
    /\ callback' = "load_todo_file"
    /\ todo_list' = load_todo_file(file, task_filter)
    /\ UNCHANGED <<timer, reported, python, task_filter, file, file_ok, menu,
                   list_updated_flag, notifier, pending, event, status,
                   exit_code, stdout, pc, arg, built>>

NextLoad == LoadStep

SpecLoad == InitLoad /\ [][NextLoad]_vars

InitRewrite ==
    /\ python \in {2, 3}
    /\ task_filter = <<>>
    /\ InitFn

\* the labels tried on a file: its lines, as they are and trimmed
Labels(content) ==
    LET lines == Split(content, "\n")
    IN  {lines[i] : i \in 1..Len(lines)}
            \cup {Strip(lines[i]) : i \in 1..Len(lines)}

CheckOffStep(label) ==
    /\ callback = "none"
    /\ callback' = "check_off_item_with_label"
    /\ arg' = label
    /\ file' = check_off_item_with_label(file, label, python)
    /\ UNCHANGED <<timer, reported, python, task_filter, file_ok, todo_list, menu,
                   list_updated_flag, notifier, pending, event, status,
                   exit_code, stdout, pc, built>>

RemoveStep ==
    /\ callback = "none"
    /\ callback' = "remove_checked_off_items"
    /\ file' = remove_checked_off_items(file, python)
    /\ UNCHANGED <<timer, reported, python, task_filter, file_ok, todo_list, menu,
                   list_updated_flag, notifier, pending, event, status,
                   exit_code, stdout, pc, arg, built>>

NextRewrite ==
    \/ \E label \in Labels(file) : CheckOffStep(label)
    \/ RemoveStep

SpecRewrite == InitRewrite /\ [][NextRewrite]_vars

\* build_indicator on its own, on every short file and filter
BuildStep ==
    /\ callback = "none"
    /\ callback' = "build_indicator"
    /\ build_indicator(file, file_ok)
    /\ built' = 1
    /\ UNCHANGED <<timer, reported, python, task_filter, file, file_ok,
                   list_updated_flag, notifier, pending, event, status, pc,
                   arg>>

NextBuild == BuildStep

SpecBuild == InitLoad /\ [][NextBuild]_vars

----------------------------------------------------------------------------
(* Vocabulary of the properties                                            *)

\* f occurs in s
Contains(s, f) ==
    \E i \in 0..(Len(s) - Len(f)) : SubSeq(s, i + 1, i + Len(f)) = f

\* how often x occurs in seq
Count(seq, x) == Cardinality({i \in 1..Len(seq) : seq[i] = x})

\* a line of a file without its terminator
Chomp(line) ==
    IF line # <<>> /\ line[Len(line)] = "\n"
    THEN SubSeq(line, 1, Len(line) - 1)
    ELSE line

TodoEntries == {i \in 1..Len(menu) : menu[i].activate = "check_off_handler"}

TickName == "update_if_todo_file_changed"

----------------------------------------------------------------------------
(* C1 *)

\* C1: a poll tick that finds the flag set makes exactly one build_indicator
\* call and returns with the flag cleared; a poll tick that finds the flag
\* unset makes no build_indicator call, changes neither list nor menu and
\* leaves the flag unset.  (A tick whose rebuild cannot open the file ends
\* the process at line 95 and never reaches the reset.)
C1_TickRebuildsOnce ==
    [][ /\ (pc = "idle" /\ callback # TickName /\ callback' = TickName)
            => /\ built' = 0
               /\ IF list_updated_flag
                  THEN pc' = "l95" /\ list_updated_flag'
                  ELSE /\ pc' = "idle"
                       /\ ~list_updated_flag'
                       /\ todo_list' = todo_list
                       /\ menu' = menu
        /\ (pc = "l95" /\ pc' # "l95")
            => built = 0 /\ built' = 1
        /\ (pc = "l96" /\ pc' # "l96")
            => /\ pc' = "idle"
               /\ built = 1 /\ built' = 1
               /\ ~list_updated_flag'
               /\ todo_list' = todo_list
               /\ menu' = menu
        /\ (pc' \in {"l95", "l96"} /\ pc = pc')
            => built' = built /\ todo_list' = todo_list /\ menu' = menu
      ]_vars

\* a tick has found the flag set, rebuilt once and cleared the flag
C1_Witness ==
    /\ status = "running"
    /\ pc = "idle"
    /\ callback = TickName
    /\ built = 1
    /\ ~list_updated_flag

----------------------------------------------------------------------------
(* C2 *)

\* C2: every external change is eventually shown.  Once the flag is unset,
\* no event is in flight and the GTK thread is back in the main loop, no
\* poll tick will rebuild any more, so the claim needs the displayed list
\* to equal the filtered and sorted content of the file in every such state.
C2_ChangeReflected ==
    (/\ status = "running"
     /\ pc = "idle"
     /\ pending = 0
     /\ ~list_updated_flag
     /\ file_ok)
        => /\ todo_list = load_todo_file(file, task_filter)
           /\ menu = Menu(todo_list)

----------------------------------------------------------------------------
(* C3 *)

\* C3: in the list load_todo_file produces, every non-completed item stands
\* before every completed item, and the items of each of the two groups are
\* in ascending string order.
C3_CompletedLast ==
    callback = "load_todo_file" =>
        \A i, j \in 1..Len(todo_list) :
            i < j =>
                /\ ~(Completed(todo_list[i]) /\ ~Completed(todo_list[j]))
                /\ (Completed(todo_list[i]) = Completed(todo_list[j]))
                      => ~StrLess(todo_list[j], todo_list[i])

----------------------------------------------------------------------------
(* C4 *)

\* C4: the list load_todo_file produces holds no empty item, and its length
\* is the number of lines of the file minus the empty lines and minus the
\* lines the filter rejects.
C4_NoEmptyItems ==
    callback = "load_todo_file" =>
        LET lines == Split(file, "\n")
            empty == {i \in 1..Len(lines) : lines[i] = <<>>}
            rejected == {i \in 1..Len(lines) :
                            lines[i] # <<>>
                            /\ ~Contains(lines[i], task_filter)}
        IN  /\ \A i \in 1..Len(todo_list) : todo_list[i] # <<>>
            /\ Len(todo_list) =
                  Len(lines) - Cardinality(empty) - Cardinality(rejected)

----------------------------------------------------------------------------
(* C5 *)

\* C5: the list loaded with filter f holds exactly the lines of the file
\* that contain f, each as often as the file has it, and it is the list
\* loaded without a filter with the lines not containing f taken out, the
\* others in the order they have there.
C5_FilterKeepsOrder ==
    callback = "load_todo_file" =>
        LET lines == Split(file, "\n")
            unfiltered == load_todo_file(file, <<>>)
        IN  /\ \A i \in 1..Len(todo_list) :
                  Contains(todo_list[i], task_filter)
            /\ \A i \in 1..Len(lines) :
                  Count(todo_list, lines[i]) =
                      IF Contains(lines[i], task_filter)
                      THEN Count(lines, lines[i])
                      ELSE 0
            /\ todo_list =
                  SelectSeq(unfiltered,
                            LAMBDA a : Contains(a, task_filter))

\* a filter has rejected a line and kept two different ones, which the sort
\* has put in another order than the file has them
C5_Witness ==
    /\ callback = "load_todo_file"
    /\ task_filter # <<>>
    /\ Len(todo_list) = 2
    /\ Len(Split(file, "\n")) = 3
    /\ todo_list[1] = Split(file, "\n")[2]
    /\ todo_list[2] = Split(file, "\n")[1]
    /\ todo_list[1] # todo_list[2]

----------------------------------------------------------------------------
(* C6 *)

\* C6: check_off_item_with_label with a label that is a line of the file
\* leaves the file with "x " put before that line and nothing else changed.
C6_OnlyThatLinePrefixed ==
    [][ (/\ callback = "none"
         /\ callback' = "check_off_item_with_label"
         /\ \E i \in 1..Len(ReadLines(file)) :
                Chomp(ReadLines(file)[i]) = arg')
            => LET lines == ReadLines(file)
               IN  file' = Concat([i \in 1..Len(lines) |->
                                     IF Chomp(lines[i]) = arg'
                                     THEN <<"x", " ">> \o lines[i]
                                     ELSE lines[i]])
      ]_vars

----------------------------------------------------------------------------
(* C7 *)

\* C7: remove_checked_off_items leaves the file with exactly the lines that
\* start with "x " taken out, the others as they were and in their order.
C7_OnlyCompletedRemoved ==
    [][ (callback = "none" /\ callback' = "remove_checked_off_items")
            => file' = Concat(SelectSeq(ReadLines(file),
                                        LAMBDA line : ~Completed(line)))
      ]_vars

----------------------------------------------------------------------------
(* C8 *)

\* the lines of a file, without terminators
FileLines(content) ==
    LET lines == ReadLines(content)
    IN  {Chomp(lines[i]) : i \in 1..Len(lines)}

----------------------------------------------------------------------------
(* C9 *)

----------------------------------------------------------------------------
(* C10 *)

\* C10: when the main loop has been left by quit the notifier thread is
\* stopped, and from then on the flag is never set, nothing is rebuilt and
\* no callback runs.
C10_QuitStopsWatcher ==
    [][ /\ status' = "quit" => ~notifier'
        /\ status = "quit"
            => /\ status' = "quit"
               /\ list_updated_flag' = list_updated_flag
               /\ event' = event
               /\ todo_list' = todo_list
               /\ menu' = menu
               /\ callback' = callback
               /\ built' = built
      ]_vars

\* quit while an event of the todo file was still in the inotify queue
C10_Witness ==
    /\ status = "quit"
    /\ pending > 0
    /\ ~list_updated_flag

----------------------------------------------------------------------------
(* C11 *)

\* C11: the notifier callback sets the flag exactly when the path of its
\* event is the path of the todo file: an event of the todo file leaves the
\* flag set, an event of another file of the directory leaves the flag as
\* it was, and no event clears the flag or touches the list or the menu.
C11_FlagSetIffTodoPath ==
    [][ /\ pending' < pending
            => /\ event' = todo_filename
               /\ list_updated_flag'
               /\ todo_list' = todo_list
               /\ menu' = menu
        /\ (event' # event /\ event' # todo_filename)
            => /\ list_updated_flag' = list_updated_flag
               /\ todo_list' = todo_list
               /\ menu' = menu
        /\ (~list_updated_flag /\ list_updated_flag')
            => event' = todo_filename /\ pending' < pending
      ]_vars

\* the notifier has handed over an event of another file with the flag unset
C11_Witness ==
    /\ notifier
    /\ event = other_filename
    /\ ~list_updated_flag

----------------------------------------------------------------------------
(* C12 *)

MenuHandlers ==
    {"check_off_handler", "clear_completed_handler", "refresh_handler",
     "edit_handler"}

\* the flag is set by nothing but the notifier callback, cleared by nothing
\* but line 96 of the poll tick, and a menu handler leaves it as it is
FlagFrame ==
    /\ (~list_updated_flag /\ list_updated_flag')
          => pending' < pending /\ event' = todo_filename
    /\ (list_updated_flag /\ ~list_updated_flag')
          => pc = "l96" /\ pc' = "idle" /\ callback = TickName
    /\ (callback' \in MenuHandlers
            /\ (callback' # callback \/ todo_list' # todo_list
                    \/ menu' # menu))
          => list_updated_flag' = list_updated_flag

\* C12: the flag is set only by the notifier callback and cleared only by
\* the poll tick, the menu handlers and their rebuilds leave it unchanged,
\* and once the notifier has reported the todo file (a rewrite by check-off
\* or clear-completed included) a later poll tick rebuilds: whenever the GTK
\* thread is back in the main loop with a report no poll tick has rebuilt
\* for, the flag is still set.
C12_FlagOnlyWatcherAndTick ==
    [][ /\ FlagFrame
        /\ (status' = "running" /\ pc' = "idle" /\ reported')
              => list_updated_flag'
      ]_vars

----------------------------------------------------------------------------
(* C13 *)

\* list is content filtered and sorted: it holds the lines that contain the
\* filter, each as often as content has it, in ascending order of the key
FilteredAndSorted(list, content, filter) ==
    LET lines == Split(content, "\n")
    IN  /\ \A i \in 1..Len(list) : Contains(list[i], filter)
        /\ \A i \in 1..Len(lines) :
              Contains(lines[i], filter)
                  => Count(list, lines[i]) = Count(lines, lines[i])
        /\ \A i \in 1..Len(list) : Count(lines, list[i]) > 0
        /\ \A i, j \in 1..Len(list) :
              i < j => ~StrLess(SortKey(list[j]), SortKey(list[i]))

\* a step in which build_indicator has run to its end
CompletedRebuild ==
    /\ status' = "running"
    /\ \/ status = "new"
       \/ pc = "l95" /\ pc' = "l96"
       \/ callback' \in {"check_off_handler", "clear_completed_handler",
                         "refresh_handler"}
            /\ built' = 1
            /\ callback' # callback
       \/ todo_list' # todo_list
       \/ menu' # menu

----------------------------------------------------------------------------
(* C14 *)

\* C14: check_off_item_with_label puts "x " before every line of the file
\* whose trimmed text is the trimmed label, duplicates included, and before
\* no other line: afterwards the file has, for every line that matched, the
\* line with "x " before it, as often as before or more, and every line
\* that did not match as often as before or more.
C14_ChecksOffAllMatches ==
    [][ (callback = "none" /\ callback' = "check_off_item_with_label")
            => LET lines == ReadLines(file)
                   before == [i \in 1..Len(lines) |-> Chomp(lines[i])]
                   after == [i \in 1..Len(ReadLines(file')) |->
                               Chomp(ReadLines(file')[i])]
                   expected == [i \in 1..Len(before) |->
                                  IF Strip(before[i]) = Strip(arg')
                                  THEN <<"x", " ">> \o before[i]
                                  ELSE before[i]]
               IN  \A i \in 1..Len(expected) :
                      expected[i] # <<>>
                          => Count(after, expected[i])
                                 = Count(expected, expected[i])
      ]_vars

----------------------------------------------------------------------------
(* C15 *)

\* the file has nothing to display: it is empty, or the filter rejects
\* every one of its lines
NoItemToDisplay ==
    \/ file = <<>>
    \/ \A i \in 1..Len(Split(file, "\n")) :
           ~Contains(Split(file, "\n")[i], task_filter)

\* the four static actions, in menu order
StaticHandlers ==
    <<"edit_handler", "clear_completed_handler", "refresh_handler",
      "quit_handler">>

\* C15: after a rebuild the menu is, in this order: one entry per item of
\* the list, in list order, a completed item disabled and any other
\* enabled -- or, when the file has no item to display, the single
\* disabled placeholder; then one separator; then Edit, Clear completed,
\* Refresh and Quit.
C15_MenuLayout ==
    callback = "build_indicator"
        => LET n == Len(menu) - 5
           IN  /\ n >= 1
               /\ IF NoItemToDisplay
                  THEN /\ n = 1
                       /\ menu[1].kind = "item"
                       /\ menu[1].label = NoItemsLabel
                       /\ ~menu[1].sensitive
                       /\ menu[1].activate = "none"
                  ELSE /\ n = Len(todo_list)
                       /\ \A i \in 1..n :
                             /\ menu[i].kind = "item"
                             /\ menu[i].label = todo_list[i]
                             /\ menu[i].activate = "check_off_handler"
                             /\ menu[i].sensitive = ~Completed(todo_list[i])
               /\ menu[n + 1].kind = "separator"
               /\ \A k \in 1..4 :
                     /\ menu[n + 1 + k].kind = "item"
                     /\ menu[n + 1 + k].label = menu_items[k][1]
                     /\ menu[n + 1 + k].activate = StaticHandlers[k]
                     /\ menu[n + 1 + k].sensitive

----------------------------------------------------------------------------
(* C16 *)

\* the lines of a file in file order, without terminators
LineSeq(content) ==
    [i \in 1..Len(ReadLines(content)) |-> Chomp(ReadLines(content)[i])]

\* C16: whatever entry of the menu takes a click, the check-off it makes
\* leaves every completed line of the file as it is, and produces no line
\* that carries the marker twice ("x x ...").
C16_NoDoubleMarker ==
    (status = "running" /\ file_ok) =>
        \A i \in TodoEntries :
            menu[i].sensitive =>
                LET before == LineSeq(file)
                    after == LineSeq(check_off_item_with_label(
                                         file, menu[i].label, python))
                IN  /\ \A k \in 1..Len(before) :
                          Completed(before[k])
                              => Count(after, before[k])
                                     >= Count(before, before[k])
                    /\ \A k \in 1..Len(after) :
                          Take(after[k], 4) = <<"x", " ", "x", " ">>
                              => Count(before, after[k]) > 0

----------------------------------------------------------------------------
(* C17 *)

\* C17: every return of the poll callback is the True that keeps the
\* timeout installed: from the constructor's timeout_add on, as long as the
\* process runs (until quit or the exit of a failed load), the poll timer
\* is installed, and no step of a running process removes it.
C17_PollTimerStays ==
    [][ /\ status' = "running" => timer'
        /\ (callback' = TickName /\ pc' = "idle" /\ status' = "running"
                /\ (pc # "idle" \/ callback # TickName \/ built' # built))
            => timer'
        /\ (status = "running" /\ status' = "running" /\ timer) => timer'
      ]_vars

\* a poll tick has found the flag unset and returned, the timer stays
C17_Witness ==
    /\ status = "running"
    /\ pc = "idle"
    /\ callback = TickName
    /\ built = 0
    /\ ~list_updated_flag
    /\ timer

====
